---- MODULE Spec2Model ----
(***************************************************************************)
(* Model of extract_titles.py: the title locator, the table reader, the    *)
(* title/table association loop of extract_titles_from_html and the sheet  *)
(* writer save_titles_to_excel.                                            *)
(*                                                                         *)
(* Text is a sequence of one-character strings ("atoms").  Two atoms stand *)
(* for literals of the program: "US" for the marker 'User Selects' and     *)
(* "#rn#" for the pseudo-column name '#row_number#'.                       *)
(***************************************************************************)
EXTENDS Integers, Sequences, FiniteSets, TLC

VARIABLES doc, pc, idx, results, origin, ws, current_row, ri
vars == <<doc, pc, idx, results, origin, ws, current_row, ri>>

-----------------------------------------------------------------------------
(* Text helpers: str.strip, str.replace, str.split, str.isdigit, float().   *)

Range(s) == {s[i] : i \in 1..Len(s)}

RECURSIVE LStrip(_)
LStrip(s) == IF s # <<>> /\ Head(s) = " " THEN LStrip(Tail(s)) ELSE s

RECURSIVE RStrip(_)
RStrip(s) ==
  IF s # <<>> /\ s[Len(s)] = " " THEN RStrip(SubSeq(s, 1, Len(s) - 1)) ELSE s

\* get_text(strip=True) of an element holding one string
GetText(s) == RStrip(LStrip(s))

\* s.replace(ch, '')
Remove(s, ch) == SelectSeq(s, LAMBDA a : a # ch)

Digits == {"0", "2", "4", "7"}
DigitVal(a) == CASE a = "0" -> 0 [] a = "2" -> 2 [] a = "4" -> 4 [] a = "7" -> 7

\* str.isdigit(): non-empty and every character a digit
IsDigit(s) == s # <<>> /\ \A i \in 1..Len(s) : s[i] \in Digits

RECURSIVE DigitsToNat(_)
DigitsToNat(s) ==
  IF s = <<>> THEN 0
  ELSE 10 * DigitsToNat(SubSeq(s, 1, Len(s) - 1)) + DigitVal(s[Len(s)])

\* position of the first occurrence of ch in s, 0 when absent
RECURSIVE IndexOf(_, _)
IndexOf(s, ch) ==
  IF s = <<>> THEN 0
  ELSE IF Head(s) = ch THEN 1
  ELSE LET r == IndexOf(Tail(s), ch) IN IF r = 0 THEN 0 ELSE r + 1

\* a float as mantissa / 10^scale, trailing zeros of the fraction removed
RECURSIVE Canon(_, _)
Canon(m, sc) == IF sc > 0 /\ m % 10 = 0 THEN Canon(m \div 10, sc - 1)
                ELSE [t |-> "float", m |-> m, sc |-> sc]

StrVal(s) == [t |-> "str", s |-> s]
NoFloat == [t |-> "error"]

\* float(s) for s made of digits and '.' only (with at least one digit):
\* a ValueError when s holds more than one '.'
ParseFloat(s) ==
  LET p == IndexOf(s, ".")
  IN IF p = 0 THEN Canon(DigitsToNat(s), 0)
     ELSE LET frac == SubSeq(s, p + 1, Len(s))
          IN IF IndexOf(frac, ".") # 0 THEN NoFloat
             ELSE Canon(DigitsToNat(SubSeq(s, 1, p - 1) \o frac), Len(frac))

\* the conversion of lines 281-286: digits once ',' and '.' are removed
\* -> float of the text without ','; a failing float() leaves the text
NormalizeValue(s) ==
  IF IsDigit(Remove(Remove(s, ","), "."))
  THEN LET f == ParseFloat(Remove(s, ","))
       IN IF f = NoFloat THEN StrVal(s) ELSE f
  ELSE StrVal(s)

-----------------------------------------------------------------------------
(* Title locator: the three strategies of lines 129-171.  A block's divs    *)
(* are its div descendants in document order: inAnsi = inside a            *)
(* data-testid="ansi-output" div, ansiout = has a class containing         *)
(* 'ansiout', text = the div's string.                                     *)

Marker == "US"

\* the first non-empty stripped text among the divs, <<>> when there is none
FirstText(divs) ==
  LET hit == SelectSeq(divs, LAMBDA d : GetText(d.text) # <<>>)
  IN IF hit = <<>> THEN <<>> ELSE GetText(hit[1].text)

\* strategy 1 without the restriction to the ansi-output containers
Strategy1AnyAnsiout(divs) == FirstText(SelectSeq(divs, LAMBDA d : d.ansiout))

Strategy1(divs) == FirstText(SelectSeq(divs, LAMBDA d : d.inAnsi /\ d.ansiout))
Strategy2(divs) == FirstText(SelectSeq(divs, LAMBDA d : d.ansiout))
Strategy3(divs) == FirstText(SelectSeq(divs, LAMBDA d : Marker \in Range(d.text)))

\* title_text; <<>> when found_title stays False
LocateTitle(divs) ==
  IF Strategy1(divs) # <<>> THEN Strategy1(divs)
  ELSE IF Strategy2(divs) # <<>> THEN Strategy2(divs)
  ELSE Strategy3(divs)

-----------------------------------------------------------------------------
(* Table reader: extract_table_data.  A grid is the datagrid div of a      *)
(* block: found = the div with data-testid="datagrid.table" or role="table"*)
(* exists; items = its header elements in document order, each a           *)
(* role="columnheader" div (with an optional dg--header-text span, an      *)
(* aria-label and a data-cell-id) or a dg--header-text span outside any    *)
(* column header; rows = its role="row" divs; failAt = the row at which    *)
(* the read raises (0: it does not raise).                                 *)

RowNumberName == <<"#rn#">>

\* header_name of one columnheader div, <<>> when the loop continues
HeaderName(h) ==
  IF h.hasSpan THEN GetText(h.span)
  ELSE IF h.aria # <<>> THEN h.aria
  ELSE h.cid

\* the header_name test of line 43
KeepHeader(name) == name # <<>> /\ name # RowNumberName

RECURSIVE HeadersByRole(_)
HeadersByRole(items) ==
  IF items = <<>> THEN <<>>
  ELSE LET h == Head(items)
           rest == HeadersByRole(Tail(items))
       IN IF h.role = "columnheader" /\ KeepHeader(HeaderName(h))
          THEN <<HeaderName(h)>> \o rest
          ELSE rest

\* lines 47-50: every dg--header-text span with a non-empty text
RECURSIVE HeadersBySpan(_)
HeadersBySpan(items) ==
  IF items = <<>> THEN <<>>
  ELSE LET h == Head(items)
           rest == HeadersBySpan(Tail(items))
       IN IF h.hasSpan /\ GetText(h.span) # <<>>
          THEN <<GetText(h.span)>> \o rest
          ELSE rest

ResolveHeaders(items) ==
  IF HeadersByRole(items) # <<>> THEN HeadersByRole(items)
  ELSE HeadersBySpan(items)

\* row_data[col] = value on a dict kept as a sequence of (col, val) in
\* insertion order
DictSet(d, col, val) ==
  IF \E i \in 1..Len(d) : d[i].col = col
  THEN [i \in 1..Len(d) |-> IF d[i].col = col THEN [col |-> col, val |-> val]
                                              ELSE d[i]]
  ELSE Append(d, [col |-> col, val |-> val])

Keys(d) == [i \in 1..Len(d) |-> d[i].col]
HasKey(d, col) == \E i \in 1..Len(d) : d[i].col = col
\* row_data.get(col, '')
DictGet(d, col) ==
  IF HasKey(d, col) THEN d[CHOOSE i \in 1..Len(d) : d[i].col = col].val
  ELSE <<>>

\* the column of a cell without the test that it is a resolved header
CellColumnAnyName(cell, headers) ==
  LET p == IndexOf(cell.cid, "_")
  IN IF cell.cid # <<>> /\ p # 0
     THEN SubSeq(cell.cid, p + 1, Len(cell.cid)) ELSE <<>>

\* the column a cell resolves to (lines 80-87), <<>> when it resolves to none
CellColumn(cell, headers) ==
  LET p == IndexOf(cell.cid, "_")
      col == SubSeq(cell.cid, p + 1, Len(cell.cid))
  IN IF cell.cid # <<>> /\ p # 0 /\ col \in Range(headers) THEN col ELSE <<>>

\* whether the cell stores a value in row_data (lines 71-87)
CellResolves(cell, headers) ==
  ~cell.rownum /\ cell.hasSpan /\ CellColumn(cell, headers) # <<>>

RECURSIVE RowData(_, _, _)
RowData(cells, headers, acc) ==
  IF cells = <<>> THEN acc
  ELSE LET c == Head(cells)
       IN RowData(Tail(cells), headers,
                  IF CellResolves(c, headers)
                  THEN DictSet(acc, CellColumn(c, headers), GetText(c.span))
                  ELSE acc)

\* rows k..Len(rows), stopping where the read raises
RECURSIVE ReadRows(_, _, _, _, _)
ReadRows(rows, k, headers, failAt, acc) ==
  IF k > Len(rows) \/ k = failAt THEN acc
  ELSE LET r == rows[k]
           rd == RowData(r.cells, headers, <<>>)
       IN ReadRows(rows, k + 1, headers, failAt,
                   IF ~r.hasColHeader /\ r.cells # <<>> /\ rd # <<>>
                   THEN Append(acc, rd) ELSE acc)

ExtractTableData(grid) ==
  IF ~grid.found THEN <<>>
  ELSE IF ResolveHeaders(grid.items) = <<>> THEN <<>>
  ELSE ReadRows(grid.rows, 1, ResolveHeaders(grid.items), grid.failAt, <<>>)

-----------------------------------------------------------------------------
(* Association: extract_titles_from_html.  doc is command_results, the     *)
(* CommandResult divs in document order.  wrapped = the div sits alone in  *)
(* a wrapper div, so it has no CommandResult sibling; the other blocks are *)
(* children of one parent.  tabs = the class contains                      *)
(* 'command-result-tabs'.  raises = the title lookup of the block raises.  *)

\* command_result.find_next_sibling('div', {'data-testid': 'CommandResult'}):
\* the index of the sibling, 0 when there is none
RECURSIVE NextUnwrapped(_, _)
NextUnwrapped(d, j) ==
  IF j > Len(d) THEN 0
  ELSE IF ~d[j].wrapped THEN j
  ELSE NextUnwrapped(d, j + 1)

\* the next block of the document, whatever its parent
NextInDocument(d, i) == IF i < Len(d) THEN i + 1 ELSE 0

NextSibling(d, i) == IF d[i].wrapped THEN 0 ELSE NextUnwrapped(d, i + 1)

\* the first later block whose class contains 'command-result-tabs'
RECURSIVE FirstTabsFrom(_, _)
FirstTabsFrom(d, j) ==
  IF j > Len(d) THEN 0
  ELSE IF d[j].tabs THEN j
  ELSE FirstTabsFrom(d, j + 1)

TableSourceLookahead(d, i) == FirstTabsFrom(d, i + 1)

\* the block the table of block i is read from (lines 178-185), 0 when none
TableSource(d, i) ==
  LET s == NextSibling(d, i)
  IN IF s # 0 /\ d[s].tabs THEN s ELSE 0

TableFor(d, i) ==
  IF TableSource(d, i) = 0 THEN <<>>
  ELSE ExtractTableData(d[TableSource(d, i)].grid)

\* an append that leaves out a title without table rows
EmitIfTable(res, title, table) ==
  IF table = <<>> THEN res
  ELSE Append(res, [title |-> title, table_data |-> table])

\* results.append({'title': ..., 'table_data': ...})
Emit(res, title, table) ==
  Append(res, [title |-> title, table_data |-> table])

\* the loop without its own handler: the exception reaches the handler of
\* line 234, which returns []
BlockResultsAbort(res, d, i) ==
  IF d[i].raises THEN <<>>
  ELSE IF LocateTitle(d[i].divs) = <<>> THEN res
  ELSE Append(res, [title |-> LocateTitle(d[i].divs),
                    table_data |-> TableFor(d, i)])

\* one iteration of the loop of line 127 on the results
BlockResults(res, d, i) ==
  IF d[i].raises THEN res
  ELSE IF LocateTitle(d[i].divs) = <<>> THEN res
  ELSE Emit(res, LocateTitle(d[i].divs), TableFor(d, i))

-----------------------------------------------------------------------------
(* Sheet writer: save_titles_to_excel.  ws maps (row, column) to the       *)
(* cell written there.                                                     *)

Cell(v, bold) == [v |-> v, bold |-> bold]

\* columns = list(table_data[0].keys())
Columns(table) == Keys(table[1])

WriteTitle(w, row, title) == (<<row, 1>> :> Cell(StrVal(title), TRUE)) @@ w

WriteHeader(w, row, cols) ==
  [c \in {<<row, i>> : i \in 1..Len(cols)} |-> Cell(StrVal(cols[c[2]]), TRUE)] @@ w

WriteRow(w, row, cols, row_data) ==
  [c \in {<<row, i>> : i \in 1..Len(cols)} |->
      Cell(NormalizeValue(DictGet(row_data, cols[c[2]])), FALSE)] @@ w

RECURSIVE WriteRows(_, _, _, _, _)
WriteRows(w, row, cols, table, k) ==
  IF k > Len(table) THEN w
  ELSE WriteRows(WriteRow(w, row, cols, table[k]), row + 1, cols, table, k + 1)

\* the rows the table of one result takes (lines 265-288)
TableHeight(table) == IF table = <<>> THEN 0 ELSE 1 + Len(table)

\* the blank row left out after a title without a table
ResultHeightNoBlank(table) ==
  IF table = <<>> THEN 1 ELSE 1 + TableHeight(table) + 1

\* the rows one result takes: title, table, blank row
ResultHeight(table) == 1 + TableHeight(table) + 1

WriteResult(w, row, r) ==
  LET w1 == WriteTitle(w, row, r.title)
  IN IF r.table_data = <<>> THEN w1
     ELSE WriteRows(WriteHeader(w1, row + 1, Columns(r.table_data)), row + 2,
                    Columns(r.table_data), r.table_data, 1)

-----------------------------------------------------------------------------
(* Documents the specifications start from.                                *)

MaxBlocks == 3
MaxDivs == 2
MaxItems == 2
MaxRows == 2
MaxTextLen == 3

\* sequences over S of length 0..n
SeqsUpTo(S, n) == UNION {[1..k -> S] : k \in 0..n}

Div(inAnsi, ansiout, text) ==
  [inAnsi |-> inAnsi, ansiout |-> ansiout, text |-> text]

Item(role, hasSpan, span, aria, cid) ==
  [role |-> role, hasSpan |-> hasSpan, span |-> span, aria |-> aria, cid |-> cid]

DataCell(rownum, hasSpan, span, cid) ==
  [rownum |-> rownum, hasSpan |-> hasSpan, span |-> span, cid |-> cid]

Row(hasColHeader, cells) == [hasColHeader |-> hasColHeader, cells |-> cells]

Grid(items, rows, failAt) ==
  [found |-> TRUE, items |-> items, rows |-> rows, failAt |-> failAt]

NoGrid == [found |-> FALSE, items |-> <<>>, rows |-> <<>>, failAt |-> 0]

Block(divs, tabs, wrapped, raises, grid) ==
  [divs |-> divs, tabs |-> tabs, wrapped |-> wrapped, raises |-> raises,
   grid |-> grid]

TitleTexts ==
  {<<>>, <<" ">>, <<"x">>, <<" ", "y", " ">>, <<"US">>, <<" ", "US", "z">>}

DivSet == {Div(i, a, t) : i \in BOOLEAN, a \in BOOLEAN, t \in TitleTexts}

ItemSet ==
  { Item("columnheader", TRUE, <<"a">>, <<>>, <<"a">>),
    Item("columnheader", TRUE, <<" ", "b", " ">>, <<>>, <<>>),
    Item("columnheader", FALSE, <<>>, <<"b">>, <<>>),
    Item("columnheader", FALSE, <<>>, <<>>, <<"#rn#">>),
    Item("columnheader", TRUE, <<"#rn#">>, <<>>, <<"#rn#">>),
    Item("columnheader", TRUE, <<" ">>, <<"a">>, <<>>),
    Item("span", TRUE, <<"a">>, <<>>, <<>>),
    Item("span", TRUE, <<"#rn#">>, <<>>, <<>>) }

CellA == DataCell(FALSE, TRUE, <<"x">>, <<"0", "_", "a">>)
CellB == DataCell(FALSE, TRUE, <<" ", "y">>, <<"0", "_", "b">>)
CellNoId == DataCell(FALSE, TRUE, <<"x">>, <<>>)
CellRowNumber == DataCell(TRUE, TRUE, <<"1">>, <<"0", "_", "#rn#">>)
CellRn == DataCell(FALSE, TRUE, <<"1">>, <<"0", "_", "#rn#">>)
CellNoSpan == DataCell(FALSE, FALSE, <<>>, <<"0", "_", "a">>)
CellEmpty == DataCell(FALSE, TRUE, <<" ">>, <<"0", "_", "a">>)
CellNoSep == DataCell(FALSE, TRUE, <<"x">>, <<"a">>)

RowSet ==
  { Row(TRUE, <<>>),
    Row(FALSE, <<>>),
    Row(FALSE, <<CellRowNumber, CellA, CellB>>),
    Row(FALSE, <<CellB>>),
    Row(FALSE, <<CellRowNumber, CellNoId>>),
    Row(FALSE, <<CellRn, CellNoSpan, CellNoSep>>),
    Row(FALSE, <<CellA, CellNoId, CellEmpty>>) }

TitleA == <<Div(TRUE, TRUE, <<"x">>)>>
TitleB == <<Div(FALSE, TRUE, <<" ", "y", " ">>)>>

HeadersAB ==
  << Item("columnheader", FALSE, <<>>, <<>>, <<"#rn#">>),
     Item("columnheader", TRUE, <<"a">>, <<>>, <<"a">>),
     Item("columnheader", TRUE, <<"b">>, <<>>, <<"b">>) >>

GridOne == Grid(HeadersAB, <<Row(TRUE, <<>>), Row(FALSE, <<CellB>>)>>, 0)
GridTwo ==
  Grid(HeadersAB,
       << Row(TRUE, <<>>), Row(FALSE, <<CellRowNumber, CellA, CellB>>),
          Row(FALSE, <<CellRowNumber, CellA>>) >>, 0)
GridFails == [GridTwo EXCEPT !.failAt = 3]

BlockSet ==
  { Block(TitleA, FALSE, FALSE, FALSE, NoGrid),
    Block(TitleB, FALSE, FALSE, FALSE, NoGrid),
    Block(TitleA, FALSE, FALSE, TRUE, NoGrid),
    Block(TitleA, FALSE, TRUE, FALSE, NoGrid),
    Block(<<>>, FALSE, FALSE, FALSE, NoGrid),
    Block(<<>>, FALSE, TRUE, FALSE, NoGrid),
    Block(<<>>, FALSE, FALSE, FALSE, GridOne),
    Block(<<>>, TRUE, FALSE, FALSE, GridTwo),
    Block(<<>>, TRUE, TRUE, FALSE, GridOne),
    Block(<<>>, TRUE, FALSE, FALSE, GridFails),
    Block(<<>>, TRUE, FALSE, FALSE, NoGrid),
    Block(TitleB, TRUE, FALSE, FALSE, GridOne) }

\* documents of the association loop
Docs == SeqsUpTo(BlockSet, MaxBlocks)

\* one block, every combination of divs: the title locator's inputs
TitleDocs ==
  {<<Block(ds, FALSE, FALSE, FALSE, NoGrid)>> : ds \in SeqsUpTo(DivSet, MaxDivs)}

\* a title followed by a table block, every grid: the table reader's inputs
TableDocs ==
  { << Block(TitleA, FALSE, FALSE, FALSE, NoGrid),
       Block(<<>>, TRUE, FALSE, FALSE, Grid(items, rows, 0)) >> :
      items \in SeqsUpTo(ItemSet, MaxItems), rows \in SeqsUpTo(RowSet, MaxRows) }

\* a title followed by a one-cell table, every cell text: the inputs of the
\* value conversion
TextAtoms == {"0", "2", "4", "7", ",", ".", "-", "a", " "}

ValueDocs ==
  { << Block(TitleA, FALSE, FALSE, FALSE, NoGrid),
       Block(<<>>, TRUE, FALSE, FALSE,
             Grid(<<Item("columnheader", TRUE, <<"a">>, <<>>, <<"a">>)>>,
                  <<Row(FALSE, <<DataCell(FALSE, TRUE, t, <<"0", "_", "a">>)>>)>>,
                  0)) >> :
      t \in SeqsUpTo(TextAtoms, MaxTextLen) }

-----------------------------------------------------------------------------
(* The program: main runs extract_titles_from_html, then, when it returned *)
(* results, save_titles_to_excel.  origin is a history variable: for each  *)
(* entry of results, the block that produced it (blk) and the block its    *)
(* table was read from (tbl, 0 when none).                                 *)

InitWith(D) ==
  /\ doc \in D
  /\ pc = "extract"
  /\ idx = 1
  /\ results = <<>>
  /\ origin = <<>>
  /\ ws = <<>>
  /\ current_row = 1
  /\ ri = 1

\* one iteration of the loop over command_results (lines 127-223)
ProcessBlock ==
  /\ pc = "extract"
  /\ idx <= Len(doc)
  /\ results' = BlockResults(results, doc, idx)
  /\ origin' = IF Len(results') > Len(results)
               THEN Append(origin, [blk |-> idx, tbl |-> TableSource(doc, idx)])
               ELSE origin
  /\ idx' = idx + 1
  /\ UNCHANGED <<doc, pc, ws, current_row, ri>>

\* return results (line 229), then the test of line 348
FinishExtract ==
  /\ pc = "extract"
  /\ idx > Len(doc)
  /\ pc' = IF results # <<>> THEN "save" ELSE "done"
  /\ UNCHANGED <<doc, idx, results, origin, ws, current_row, ri>>

\* one iteration of the loop over results (lines 255-291)
SaveResult ==
  /\ pc = "save"
  /\ ri <= Len(results)
  /\ ws' = WriteResult(ws, current_row, results[ri])
  /\ current_row' = current_row + ResultHeight(results[ri].table_data)
  /\ ri' = ri + 1
  /\ UNCHANGED <<doc, pc, idx, results, origin>>

\* wb.save and return (lines 308-311)
FinishSave ==
  /\ pc = "save"
  /\ ri > Len(results)
  /\ pc' = "done"
  /\ UNCHANGED <<doc, idx, results, origin, ws, current_row, ri>>

Next == ProcessBlock \/ FinishExtract \/ SaveResult \/ FinishSave

Spec == InitWith(Docs) /\ [][Next]_vars
SpecTitle == InitWith(TitleDocs) /\ [][Next]_vars
SpecTable == InitWith(TableDocs) /\ [][Next]_vars
SpecValue == InitWith(ValueDocs) /\ [][Next]_vars

-----------------------------------------------------------------------------
(* Vocabulary of the properties, stated from the document alone.           *)

Min(S) == CHOOSE x \in S : \A y \in S : x <= y
Max(S) == CHOOSE x \in S : \A y \in S : x >= y

\* a text without its leading and trailing blanks
Trimmed(t) ==
  LET ns == {i \in 1..Len(t) : t[i] # " "}
  IN IF ns = {} THEN <<>> ELSE SubSeq(t, Min(ns), Max(ns))

\* the divs of a block that carry a non-empty title text under each rule
Rule1Divs(ds) ==
  {i \in 1..Len(ds) : ds[i].inAnsi /\ ds[i].ansiout /\ Trimmed(ds[i].text) # <<>>}
Rule2Divs(ds) == {i \in 1..Len(ds) : ds[i].ansiout /\ Trimmed(ds[i].text) # <<>>}
Rule3Divs(ds) == {i \in 1..Len(ds) : \E k \in 1..Len(ds[i].text) : ds[i].text[k] = Marker}

\* the title the fallback chain gives a block, <<>> when no rule applies
ChainTitle(ds) ==
  IF Rule1Divs(ds) # {} THEN Trimmed(ds[Min(Rule1Divs(ds))].text)
  ELSE IF Rule2Divs(ds) # {} THEN Trimmed(ds[Min(Rule2Divs(ds))].text)
  ELSE IF Rule3Divs(ds) # {} THEN Trimmed(ds[Min(Rule3Divs(ds))].text)
  ELSE <<>>

\* the blocks before position k whose title lookup completes with a title
Titled(k) ==
  {i \in 1..Len(doc) : i < k /\ ~doc[i].raises /\ ChainTitle(doc[i].divs) # <<>>}

\* the next sibling CommandResult of block i, 0 when it has none
SiblingOf(i) ==
  LET later == {j \in 1..Len(doc) : j > i /\ ~doc[j].wrapped}
  IN IF doc[i].wrapped \/ later = {} THEN 0 ELSE Min(later)

\* the table presence check, as the program applies it: the class token
Presence(b) == b.tabs

Entries == 1..Len(results)

\* C8: for any result block the title is rule 1's first non-empty trimmed
\* text, else rule 2's, else rule 3's; a block where no rule gives a text
\* produces no entry.
C8_FallbackChain ==
  \A i \in 1..Len(doc) :
    (i < idx /\ ~doc[i].raises) =>
      IF ChainTitle(doc[i].divs) = <<>>
      THEN \A n \in Entries : origin[n].blk # i
      ELSE \E n \in Entries :
             origin[n].blk = i /\ results[n].title = ChainTitle(doc[i].divs)

\* a block where rule 1 gives nothing and rule 2 takes a div that comes after
\* a 'User Selects' div has been given rule 2's title
C8_Witness ==
  /\ idx > 1
  /\ Rule1Divs(doc[1].divs) = {}
  /\ Rule2Divs(doc[1].divs) # {} /\ Rule3Divs(doc[1].divs) # {}
  /\ Min(Rule3Divs(doc[1].divs)) < Min(Rule2Divs(doc[1].divs))
  /\ Len(results) = 1
  /\ results[1].title # Trimmed(doc[1].divs[Min(Rule3Divs(doc[1].divs))].text)

\* C3: the results hold exactly one entry per title-bearing block, in
\* document order, each with a table_data list, empty when no table was
\* attached; a title without a table is emitted all the same.
C3_OneEntryPerTitle ==
  /\ Len(origin) = Len(results)
  /\ {origin[n].blk : n \in Entries} = Titled(idx)
  /\ \A n, m \in Entries : n < m => origin[n].blk < origin[m].blk
  /\ \A n \in Entries :
       /\ results[n].title = ChainTitle(doc[origin[n].blk].divs)
       /\ results[n].table_data \in Seq(Seq([col : Seq(STRING), val : Seq(STRING)]))
       /\ origin[n].tbl = 0 => results[n].table_data = <<>>

\* the run is over, a title without any table stands before a title with one
C3_Witness ==
  /\ pc = "done"
  /\ \E n, m \in Entries :
       /\ n < m
       /\ origin[n].tbl = 0 /\ results[n].table_data = <<>>
       /\ results[m].table_data # <<>>

\* the positions after block i that hold a table under the presence check,
\* within the lookahead window of the specification
WindowTables(i) ==
  {j \in 1..Len(doc) : j > i /\ j <= i + 40 /\ Presence(doc[j])}

\* block j carries a title other than t
OtherTitle(j, t) ==
  ChainTitle(doc[j].divs) # <<>> /\ ChainTitle(doc[j].divs) # t

\* C1 as first stated, for result blocks that are siblings of one another:
\* the title of block i gets the table of the first block among
\* i+1 .. i+40 that passes the presence check, no differently titled block
\* standing in between.
C1_Lookahead ==
  \A n \in Entries :
    LET i == origin[n].blk
        w == WindowTables(i)
    IN ( /\ w # {}
         /\ \A j \in i..Min(w) : ~doc[j].wrapped
         /\ \A j \in (i + 1)..Min(w) : ~OtherTitle(j, results[n].title) )
         => /\ origin[n].tbl = Min(w)
            /\ results[n].table_data = ExtractTableData(doc[Min(w)].grid)

\* C1: the title of block i gets the table read from the next sibling
\* CommandResult of block i when that sibling's class contains
\* 'command-result-tabs', and an empty table otherwise.
C1_NextSibling ==
  \A n \in Entries :
    LET s == SiblingOf(origin[n].blk)
    IN IF s # 0 /\ doc[s].tabs
       THEN /\ origin[n].tbl = s
            /\ results[n].table_data = ExtractTableData(doc[s].grid)
       ELSE /\ origin[n].tbl = 0
            /\ results[n].table_data = <<>>

\* a title whose next sibling holds no table and whose second next block
\* does, with rows, has been emitted with an empty table
C1_Witness ==
  \E n \in Entries :
    LET i == origin[n].blk
    IN /\ i + 2 <= Len(doc)
       /\ SiblingOf(i) = i + 1
       /\ ~Presence(doc[i + 1]) /\ ChainTitle(doc[i + 1].divs) = <<>>
       /\ doc[i + 2].tabs /\ ExtractTableData(doc[i + 2].grid) # <<>>
       /\ results[n].table_data = <<>>

\* C2 as first stated: once the search for the table of T reaches a block
\* with another title, T is emitted with an empty table, and no table of
\* that block or of a later one is attached to T.
C2_EarlyStop ==
  \A n \in Entries :
    \A j \in 1..Len(doc) :
      ( /\ j > origin[n].blk /\ j <= origin[n].blk + 40
        /\ OtherTitle(j, results[n].title)
        /\ \A k \in (origin[n].blk + 1)..(j - 1) : ~Presence(doc[k]) )
        => origin[n].tbl = 0 /\ results[n].table_data = <<>>

\* C2: the table of T is read from the next sibling of T's block or from no
\* block at all; when that sibling carries another title, T is emitted
\* with an empty table unless the sibling's class contains
\* 'command-result-tabs', in which case the sibling's table is attached
\* to T; no block after the sibling ever gives T its table.
C2_OnlyNextSibling ==
  \A n \in Entries :
    LET s == SiblingOf(origin[n].blk)
    IN /\ origin[n].tbl \in {0, s}
       /\ \A j \in 1..Len(doc) : j > s => origin[n].tbl # j
       /\ (s # 0 /\ OtherTitle(s, results[n].title)) =>
            IF doc[s].tabs
            THEN results[n].table_data = ExtractTableData(doc[s].grid)
            ELSE results[n].table_data = <<>>

\* a title has been given the rows of a sibling that carries another title
C2_Witness ==
  \E n \in Entries :
    LET s == SiblingOf(origin[n].blk)
    IN /\ s # 0 /\ OtherTitle(s, results[n].title)
       /\ origin[n].tbl = s
       /\ results[n].table_data # <<>>

\* the read of a grid raises part way
ReadRaises(g) ==
  g.found /\ ResolveHeaders(g.items) # <<>> /\ g.failAt \in 1..Len(g.rows)

\* the grid as far as it is read before the read raises
ReadPart(g) ==
  IF ReadRaises(g)
  THEN [g EXCEPT !.rows = SubSeq(g.rows, 1, g.failAt - 1), !.failAt = 0]
  ELSE g

\* the processing of block i raised, in the title lookup or the table read
Raised(i) ==
  \/ doc[i].raises
  \/ /\ ChainTitle(doc[i].divs) # <<>>
     /\ SiblingOf(i) # 0 /\ doc[SiblingOf(i)].tabs
     /\ ReadRaises(doc[SiblingOf(i)].grid)

\* C4 as first stated: a block whose processing raised, in the title lookup
\* or in the table read, has no entry, and every other title-bearing block
\* has its entry.
C4_SkipOnAnyException ==
  {origin[n].blk : n \in Entries} =
     {i \in 1..Len(doc) : i < idx /\ ChainTitle(doc[i].divs) # <<>> /\ ~Raised(i)}

\* C4: a block whose title lookup raises adds no entry, the entries
\* collected before it stay as they are and the loop goes on to the next
\* block; an exception in the table read is caught inside
\* extract_table_data, and the title is still emitted, with the rows read
\* before the failure.
C4_Isolation ==
  [][ (pc = "extract" /\ idx <= Len(doc)) =>
        /\ idx' = idx + 1 /\ pc' = "extract"
        /\ Len(results') >= Len(results)
        /\ SubSeq(results', 1, Len(results)) = results
        /\ IF ~doc[idx].raises /\ ChainTitle(doc[idx].divs) # <<>>
           THEN /\ Len(results') = Len(results) + 1
                /\ results'[Len(results')].title = ChainTitle(doc[idx].divs)
                /\ results'[Len(results')].table_data =
                     IF SiblingOf(idx) # 0 /\ doc[SiblingOf(idx)].tabs
                     THEN ExtractTableData(ReadPart(doc[SiblingOf(idx)].grid))
                     ELSE <<>>
           ELSE results' = results ]_vars

\* after a block whose title lookup raised, a title has been emitted with
\* the rows read before its table read raised
C4_Witness ==
  \E n \in Entries :
    /\ \E i \in 1..Len(doc) : i < origin[n].blk /\ doc[i].raises
    /\ origin[n].tbl # 0 /\ ReadRaises(doc[origin[n].tbl].grid)
    /\ results[n].table_data # <<>>
    /\ Len(results[n].table_data) < Len(ExtractTableData(
                [doc[origin[n].tbl].grid EXCEPT !.failAt = 0]))

\* the sheet row of the title of the k-th result: 1 plus, for each earlier
\* result, 2 when its table is empty and 3 + the number of its rows otherwise
RECURSIVE TitleRow(_)
TitleRow(k) ==
  IF k <= 1 THEN 1
  ELSE TitleRow(k - 1) +
         (IF results[k - 1].table_data = <<>> THEN 2
          ELSE 3 + Len(results[k - 1].table_data))

\* the columns the sheet holds a cell for in row r
ColsOfRow(r) == {c[2] : c \in {x \in DOMAIN ws : x[1] = r}}

\* C7: each result is written as one bold title row in column A, then, only
\* when its table is not empty, one header row and one row per table row,
\* then one blank row; the k-th title lands on row TitleRow(k).
C7_SheetLayout ==
  /\ current_row = TitleRow(ri)
  /\ \A c \in DOMAIN ws : c[1] < current_row
  /\ \A k \in 1..(ri - 1) :
       LET t == TitleRow(k)
           tab == results[k].table_data
       IN /\ ColsOfRow(t) = {1}
          /\ ws[<<t, 1>>] = Cell(StrVal(results[k].title), TRUE)
          /\ ColsOfRow(TitleRow(k + 1) - 1) = {}
          /\ IF tab = <<>> THEN TitleRow(k + 1) = t + 2
             ELSE /\ TitleRow(k + 1) = t + 3 + Len(tab)
                  /\ ColsOfRow(t + 1) # {}
                  /\ \A c \in ColsOfRow(t + 1) : ws[<<t + 1, c>>].bold
                  /\ \A j \in 1..Len(tab) :
                       /\ ColsOfRow(t + 1 + j) = ColsOfRow(t + 1)
                       /\ \A c \in ColsOfRow(t + 1) : ~ws[<<t + 1 + j, c>>].bold

\* the sheet is written: a title without a table on row 1, a title with a
\* table of one row on row 3, a third title on row 7
C7_Witness ==
  /\ pc = "done" /\ Len(results) = 3
  /\ results[1].table_data = <<>>
  /\ Len(results[2].table_data) = 1
  /\ <<7, 1>> \in DOMAIN ws /\ ws[<<7, 1>>].bold

\* the column names of all the rows of a table, in first-seen order
RECURSIVE UnionKeys(_)
UnionKeys(table) ==
  IF table = <<>> THEN <<>>
  ELSE LET before == UnionKeys(SubSeq(table, 1, Len(table) - 1))
           last == Keys(table[Len(table)])
       IN before \o SelectSeq(last, LAMBDA c : c \notin Range(before))

\* C5: the header row of every written table is the ordered union of the
\* column names of all its rows, and every value of a row stands in the
\* sheet under the header of its column.
C5_HeaderIsUnion ==
  \A k \in 1..(ri - 1) :
    LET tab == results[k].table_data
        cols == UnionKeys(tab)
        h == TitleRow(k) + 1
    IN tab # <<>> =>
         /\ ColsOfRow(h) = 1..Len(cols)
         /\ \A c \in 1..Len(cols) : ws[<<h, c>>].v = StrVal(cols[c])
         /\ \A j \in 1..Len(tab) : \A c \in 1..Len(cols) :
              HasKey(tab[j], cols[c]) =>
                ws[<<h + j, c>>].v = NormalizeValue(DictGet(tab[j], cols[c]))

\* C6: no resolved header name is '#row_number#' and no returned row has
\* '#row_number#' as a key, the fallback scan of the header-text spans
\* included.
C6_NoRowNumberColumn ==
  /\ \A i \in 1..Len(doc) :
       (i < idx /\ doc[i].grid.found) =>
          \A h \in 1..Len(ResolveHeaders(doc[i].grid.items)) :
             ResolveHeaders(doc[i].grid.items)[h] # RowNumberName
  /\ \A n \in Entries : \A j \in 1..Len(results[n].table_data) :
       ~HasKey(results[n].table_data[j], RowNumberName)

\* the text after the first '_' of a cell identifier that holds one
Suffix(cid) ==
  SubSeq(cid, Min({p \in 1..Len(cid) : cid[p] = "_"}) + 1, Len(cid))

HasSep(cid) == \E p \in 1..Len(cid) : cid[p] = "_"

\* the set of the elements of a sequence
Elems(q) == {q[i] : i \in 1..Len(q)}

\* the table block of a document made of a title and its table
TheGrid == doc[2].grid

\* the data rows of the grid
DataRows == {r \in 1..Len(TheGrid.rows) : ~TheGrid.rows[r].hasColHeader}

\* the place of cell p among the cells of its row that are no row-number cells
Place(cells, p) == Cardinality({q \in 1..p : ~cells[q].rownum})

\* the cell resolves to a column as C9 first states it: by the identifier
\* when there is one, by its place in the header order otherwise
StatedResolves(cells, p, H) ==
  /\ ~cells[p].rownum /\ cells[p].hasSpan /\ Trimmed(cells[p].span) # <<>>
  /\ IF cells[p].cid # <<>>
     THEN HasSep(cells[p].cid) /\ Suffix(cells[p].cid) \in Elems(H)
     ELSE Place(cells, p) <= Len(H)

StatedColumn(cells, p, H) ==
  IF cells[p].cid # <<>> THEN Suffix(cells[p].cid) ELSE H[Place(cells, p)]

\* C9 as first stated: every data row with a cell that resolves, by its
\* identifier or else by its position, is returned, in order, and holds
\* the column of each such cell.
C9_PositionalFallback ==
  (Len(doc) = 2 /\ idx > 1 /\ Len(results) = 1) =>
    LET H == ResolveHeaders(TheGrid.items)
        tab == results[1].table_data
        K == {r \in DataRows :
                \E p \in 1..Len(TheGrid.rows[r].cells) :
                   StatedResolves(TheGrid.rows[r].cells, p, H)}
    IN H # <<>> =>
         \E f \in [K -> 1..Len(tab)] :
           /\ \A r, q \in K : r < q => f[r] < f[q]
           /\ \A r \in K : \A p \in 1..Len(TheGrid.rows[r].cells) :
                StatedResolves(TheGrid.rows[r].cells, p, H) =>
                  HasKey(tab[f[r]], StatedColumn(TheGrid.rows[r].cells, p, H))

\* the cell stores a value under a column: it is no row-number cell, holds a
\* value span, and its identifier has a '_' followed by a resolved header
ById(c, H) ==
  /\ ~c.rownum /\ c.hasSpan
  /\ c.cid # <<>> /\ HasSep(c.cid) /\ Suffix(c.cid) \in Elems(H)

\* C9: a cell that is no row-number cell and holds a value span is mapped,
\* whatever its text, to the column named after the first '_' of its
\* data-cell-id when that name is a resolved header; a cell without an
\* identifier is mapped to nothing; a row is returned exactly when one of
\* its cells is mapped, with the columns in the order of their first cell
\* and each column holding the text of its last cell.
C9_ByIdentifier ==
  (Len(doc) = 2 /\ idx > 1 /\ Len(results) = 1) =>
    LET H == ResolveHeaders(TheGrid.items)
        tab == results[1].table_data
        Hits(r) == {p \in 1..Len(TheGrid.rows[r].cells) :
                      ById(TheGrid.rows[r].cells[p], H)}
        kept == {r \in DataRows : Hits(r) # {}}
    IN /\ Len(tab) = Cardinality(kept)
       /\ \A r \in kept :
            LET e == tab[1 + Cardinality({q \in kept : q < r})]
                cells == TheGrid.rows[r].cells
                Of(col) == {p \in Hits(r) : Suffix(cells[p].cid) = col}
            IN /\ {e[i].col : i \in 1..Len(e)} =
                    {Suffix(cells[p].cid) : p \in Hits(r)}
               /\ \A i, j \in 1..Len(e) :
                    i < j => Min(Of(e[i].col)) < Min(Of(e[j].col))
               /\ \A i \in 1..Len(e) :
                    e[i].val = Trimmed(cells[Max(Of(e[i].col))].span)

\* a returned row lacks the text of a cell that has no identifier, and a
\* data row whose only text sits in such a cell has been dropped
C9_Witness ==
  /\ Len(doc) = 2 /\ pc = "done" /\ Len(results) = 1
  /\ Len(results[1].table_data) = 1
  /\ Len(TheGrid.rows) = 2
  /\ \A r \in 1..2 : \E p \in 1..Len(TheGrid.rows[r].cells) :
        LET c == TheGrid.rows[r].cells[p]
        IN ~c.rownum /\ c.hasSpan /\ Trimmed(c.span) # <<>> /\ c.cid = <<>>
  /\ Len(results[1].table_data[1]) = 1

\* the value C10 states for a cell text
IntVal(n) == [t |-> "int", n |-> n]

Unsigned(s) == IF s # <<>> /\ s[1] = "-" THEN Tail(s) ELSE s
Sign(s) == IF s # <<>> /\ s[1] = "-" THEN -1 ELSE 1

\* digits in groups of three separated by ','
Grouped(s) ==
  /\ s # <<>>
  /\ \A i \in 1..Len(s) : s[i] \in Digits \cup {","}
  /\ \E i \in 1..Len(s) : s[i] = ","
  /\ \A i \in 1..Len(s) : s[i] = "," =>
        /\ i + 3 <= Len(s)
        /\ \A k \in 1..3 : s[i + k] \in Digits
        /\ i + 3 = Len(s) \/ s[i + 4] = ","
  /\ Min({i \in 1..Len(s) : s[i] = ","}) \in 2..4

WholePart(s) == IsDigit(s) \/ Grouped(s)

StatedValue(s) ==
  LET u == Unsigned(s)
      dot == {i \in 1..Len(u) : u[i] = "."}
  IN IF WholePart(u)
     THEN IntVal(Sign(s) * DigitsToNat(Remove(u, ",")))
     ELSE IF /\ Cardinality(dot) = 1
             /\ WholePart(SubSeq(u, 1, Min(dot) - 1))
             /\ IsDigit(SubSeq(u, Min(dot) + 1, Len(u)))
          THEN LET f == Canon(DigitsToNat(Remove(Remove(u, ","), ".")),
                              Len(u) - Min(dot))
               IN [f EXCEPT !.m = Sign(s) * @]
          ELSE StrVal(s)

\* C10: every table value is written to the sheet with the type its text
\* calls for: an integer for plain or comma-grouped digits, a float for a
\* text with a fraction, a leading '-' accepted, any other text unchanged.
C10_TypedValues ==
  \A k \in 1..(ri - 1) :
    LET tab == results[k].table_data
    IN \A j \in 1..Len(tab) : \A c \in 1..Len(Keys(tab[1])) :
         ws[<<TitleRow(k) + 1 + j, c>>].v =
            StatedValue(DictGet(tab[j], Keys(tab[1])[c]))

====
